---- MODULE Spec2Model ----
(***************************************************************************)
(* VerifiedOnChain: the chain services (price cache, per-chain stats       *)
(* fetchers, history synthesizer), the submission wizard and the pages     *)
(* that display wallet stats, as state machines.                           *)
(*                                                                         *)
(* JavaScript runs one task at a time: an action of this module is the     *)
(* code that runs from one event (a call, a click, the arrival of a        *)
(* network response) up to the next point where the code waits for the     *)
(* network or the wallet.                                                  *)
(*                                                                         *)
(* Four specifications share the module, one per part of the program:      *)
(*   SpecChain   services/chain.ts: fetchWalletStats, one call at a time   *)
(*   SpecPrices  services/chain.ts: fetchTokenPrices, overlapping calls    *)
(*   SpecWizard  components/SubmitForm.tsx with services/wallet.ts         *)
(*   SpecPages   components/Layout.tsx, ProfilePage.tsx, Dashboard.tsx     *)
(* Each leaves the variables of the other parts unchanged.                 *)
(***************************************************************************)
EXTENDS Integers, Sequences, FiniteSets, TLC

VARIABLES
    \* ---- services/chain.ts
    clock,          \* Date.now(), in milliseconds
    priceCache,     \* coin id -> NoEntry or [price, timestamp]
    inv,            \* the fetchWalletStats invocation in flight
    result,         \* the fetchWalletStats promise that the last task settled,
                    \* or NoResult when it settled none
    calls,          \* caller -> its fetchTokenPrices invocation (SpecPrices)
    lastStored,     \* history: coin id -> start time of the invocation whose
                    \* response was stored last, or Never
    nInvocations,   \* fetchWalletStats calls started so far
    nPriceCalls,    \* fetchTokenPrices calls started so far (SpecPrices)
    nTicks          \* clock advances so far

chainVars == <<clock, priceCache, inv, result, calls, lastStored,
               nInvocations, nPriceCalls, nTicks>>

VARIABLES
    \* ---- components/SubmitForm.tsx
    step,            \* 'connect' | 'verify' | 'profile'
    mode,            \* 'wallet' | 'manual'
    isLoading,
    error,           \* NoError or the pieces of the message
    formData,        \* [username, address, chain]
    connectedWallet, \* NoWallet or [address, chain, provider]
    pending,         \* the wallet and storage calls that have not settled
    createCalls,     \* history: the payloads given to storageService.createProfile
    location,        \* the path the router shows
    event,           \* history: the handler that ran last
    settled          \* history: the service call that settled in the last step

wizardVars == <<step, mode, isLoading, error, formData, connectedWallet, pending,
                createCalls, location, event, settled>>

VARIABLES
    \* ---- components/Layout.tsx, ProfilePage.tsx, Dashboard.tsx
    route,          \* the path the router shows: "/" or a username under /u/
    mount,          \* which mounting of the page under <main key=...> is shown
    profilePage,    \* [profile, stats, loading] of the ProfilePage shown
    rows,           \* the rows of the Dashboard shown
    inflight,       \* the storage and stats requests that have not settled
    delivered,      \* history: the response that arrived last
    nNavigations    \* navigations so far

pageVars == <<route, mount, profilePage, rows, inflight, delivered, nNavigations>>

VARIABLES
    \* ---- services/storage.ts
    table,          \* the rows of the profiles table, in the order they were inserted
    storageCall     \* history: the call of the storage service that settled last

storageVars == <<table, storageCall>>

vars == <<chainVars, wizardVars, pageVars, storageVars>>

(***************************************************************************)
(* Bounds of the model.                                                    *)
(***************************************************************************)
MaxInvocations == 2
MaxPriceCalls == 3
MaxTicks == 1
MaxNavigations == 3

(***************************************************************************)
(* Strings are sequences of one-character strings, so that the address     *)
(* patterns can be matched character by character.                         *)
(***************************************************************************)
Digits == {"0", "1", "2", "3", "4", "5", "6", "7", "8", "9"}
LowerCase == {"a", "b", "c", "d", "e", "f", "g", "h", "i", "j", "k", "l", "m",
              "n", "o", "p", "q", "r", "s", "t", "u", "v", "w", "x", "y", "z"}
UpperCase == {"A", "B", "C", "D", "E", "F", "G", "H", "I", "J", "K", "L", "M",
              "N", "O", "P", "Q", "R", "S", "T", "U", "V", "W", "X", "Y", "Z"}
\* [a-zA-Z0-9]
AlphaNumeric == LowerCase \cup UpperCase \cup Digits
\* [a-fA-F0-9]
HexDigits == Digits \cup {"a", "b", "c", "d", "e", "f", "A", "B", "C", "D", "E", "F"}
\* [1-9A-HJ-NP-Za-km-z]
SolanaClass == (AlphaNumeric \ {"0", "I", "O", "l"})

Rep(ch, n) == [i \in 1..n |-> ch]
HasPrefix(s, p) == Len(s) >= Len(p) /\ SubSeq(s, 1, Len(p)) = p
AllFrom(s, from, class) == \A i \in from..Len(s) : s[i] \in class

LowerOf ==
    ("A" :> "a") @@ ("B" :> "b") @@ ("C" :> "c") @@ ("D" :> "d") @@ ("E" :> "e") @@
    ("F" :> "f") @@ ("G" :> "g") @@ ("H" :> "h") @@ ("I" :> "i") @@ ("J" :> "j") @@
    ("K" :> "k") @@ ("L" :> "l") @@ ("M" :> "m") @@ ("N" :> "n") @@ ("O" :> "o") @@
    ("P" :> "p") @@ ("Q" :> "q") @@ ("R" :> "r") @@ ("S" :> "s") @@ ("T" :> "t") @@
    ("U" :> "u") @@ ("V" :> "v") @@ ("W" :> "w") @@ ("X" :> "x") @@ ("Y" :> "y") @@
    ("Z" :> "z")
Fold(ch) == IF ch \in DOMAIN LowerOf THEN LowerOf[ch] ELSE ch
\* String.prototype.toLowerCase
toLowerCase(s) == [i \in 1..Len(s) |-> Fold(s[i])]

Blockchain == {"BTC", "ETH", "SOL", "BNB"}

\* /^(1|3|bc1)[a-zA-Z0-9]{25,59}$/
MatchesBTC(address) ==
    \E p \in {<<"1">>, <<"3">>, <<"b", "c", "1">>} :
        /\ HasPrefix(address, p)
        /\ (Len(address) - Len(p)) \in 25..59
        /\ AllFrom(address, Len(p) + 1, AlphaNumeric)

\* /^0x[a-fA-F0-9]{40}$/
MatchesEVM(address) ==
    /\ HasPrefix(address, <<"0", "x">>)
    /\ Len(address) = 42
    /\ AllFrom(address, 3, HexDigits)

\* /^[1-9A-HJ-NP-Za-km-z]{32,44}$/
MatchesSOL(address) ==
    /\ Len(address) \in 32..44
    /\ AllFrom(address, 1, SolanaClass)

isValidAddress(address, chain) ==
    IF address = <<>> THEN FALSE
    ELSE CASE chain = "BTC" -> MatchesBTC(address)
           [] chain \in {"ETH", "BNB"} -> MatchesEVM(address)
           [] chain = "SOL" -> MatchesSOL(address)
           [] OTHER -> FALSE

\* Addresses the model draws its inputs from.
BtcAddress == <<"1">> \o Rep("A", 33)
EthAddress == <<"0", "x">> \o Rep("a", 40)
SolAddress == Rep("S", 44)
\* The same account as EthAddress in another spelling, and other accounts.
EthAddressUpper == <<"0", "x">> \o Rep("A", 40)
OtherEthAddress == <<"0", "x">> \o Rep("b", 40)
OtherSolAddress == Rep("T", 44)
NotAnAddress == <<"n", "o", "t", "-", "a", "n", "-", "a", "d", "d", "r", "e", "s", "s">>


(***************************************************************************)
(* services/chain.ts: the price cache.                                     *)
(***************************************************************************)
PRICE_CACHE_TTL == 60000
DAY_MS == 86400000
days == 365

CoinIds == {"bitcoin", "ethereum", "solana", "binancecoin"}

getCoingeckoId(chain) ==
    CASE chain = "BTC" -> "bitcoin"
      [] chain = "ETH" -> "ethereum"
      [] chain = "SOL" -> "solana"
      [] chain = "BNB" -> "binancecoin"
      [] OTHER -> "ethereum"

NoEntry == [cached |-> FALSE, price |-> 0, timestamp |-> 0]
Never == 0 - 1

\* IsMissing with >= for >: an entry expires one millisecond early.
IsMissing_expiresEarly(cache, id, now) ==
    \/ ~cache[id].cached
    \/ now - cache[id].timestamp >= PRICE_CACHE_TTL

\* ids.filter(id => !priceCache[id] || (now - priceCache[id].timestamp > PRICE_CACHE_TTL))
IsMissing(cache, id, now) ==
    \/ ~cache[id].cached
    \/ now - cache[id].timestamp > PRICE_CACHE_TTL

\* result[id] = priceCache[id]?.price || 0
CachedPrice(cache, id) == IF cache[id].cached THEN cache[id].price ELSE 0

\* const missingIds = ids.filter(...)
MissingIds(cache, ids, now) ==
    SelectSeq(ids, LAMBDA id : IsMissing(cache, id, now))

\* A store that stamps an entry with the time the response arrived.
StorePrices_atArrival(cache, data, now) ==
    [id \in CoinIds |->
        IF id \in DOMAIN data
        THEN [cached |-> TRUE, price |-> data[id], timestamp |-> clock]
        ELSE cache[id]]

\* Object.keys(data).forEach(key => {
\*   priceCache[key] = { price: data[key].usd, timestamp: now } })
\* now is the time the invocation started, not the time its response arrived.
StorePrices(cache, data, now) ==
    [id \in CoinIds |->
        IF id \in DOMAIN data
        THEN [cached |-> TRUE, price |-> data[id], timestamp |-> now]
        ELSE cache[id]]

\* What the price API answers to a request for ids: a network exception (or
\* a body that cannot be read), a non-OK status, or an object that has a price
\* for each id it knows: for all of them, or for none.
FeedPrices == {2, 3}
PriceOutcomes(ids) ==
    {[kind |-> "throw", data |-> <<>>], [kind |-> "nonok", data |-> <<>>],
     [kind |-> "ok", data |-> <<>>]}
        \cup {[kind |-> "ok", data |-> [id \in {ids[i] : i \in 1..Len(ids)} |-> p]] :
                    p \in FeedPrices}

\* A failed request that empties the cache.
fetchTokenPrices_afterResponse_dropsCache(cache, now, o) ==
    IF o.kind = "ok" THEN StorePrices(cache, o.data, now)
    ELSE [id \in CoinIds |-> NoEntry]

\* if (response.ok) { ...priceCache[key] = {...} }, and nothing otherwise
fetchTokenPrices_afterResponse(cache, now, o) ==
    IF o.kind = "ok" THEN StorePrices(cache, o.data, now) ELSE cache

\* ids.forEach(id => { result[id] = priceCache[id]?.price || 0 })
fetchTokenPrices_result(cache, ids) ==
    [id \in {ids[i] : i \in 1..Len(ids)} |-> CachedPrice(cache, id)]

(***************************************************************************)
(* services/chain.ts: the per-chain fetchers.  A fetcher's code between    *)
(* two awaits is an operator from the invocation's state (and the response *)
(* that arrived) to a step: the new state and what the invocation does     *)
(* next (wait for an endpoint, call fetchTokenPrices, return or throw).    *)
(***************************************************************************)
NoTransaction ==
    [present |-> FALSE, type |-> "none", amount |-> 0, amountUSD |-> 0,
     priceUSD |-> 0, confirmed |-> TRUE]

\* const stats: WalletStats = { balance: 0, txCount: 0, ..., tokens: [],
\* latestTransaction: undefined }
DefaultStats ==
    [balance |-> 0, txCount |-> 0, firstTxDate |-> "today", tokens |-> <<>>,
     latestTransaction |-> NoTransaction]

IdleInvocation ==
    [pc |-> "idle", address |-> <<>>, chain |-> "BTC", stats |-> DefaultStats,
     nativePrice |-> 0, lastTx |-> NoTransaction,
     \* fetchTokenPrices: "none" (not called), "issued" (request sent) or
     \* "cached" (answered from the cache); now, its start time
     ftp |-> "none", now |-> 0,
     \* history: the endpoints that answered, that failed, that were asked
     okCalls |-> {}, failedCalls |-> {}, issued |-> <<>>]

Step(iv, next) == [iv |-> iv, next |-> next]

\* The URL a request of a fetcher goes to, without its query string.
EndpointOf(chain, request) ==
    CASE request = "price" -> "https://api.coingecko.com/api/v3/simple/price"
      [] chain = "BTC" /\ request = "balance" -> "https://mempool.space/api/address/:address"
      [] chain = "BTC" -> "https://mempool.space/api/address/:address/txs"
      [] chain = "SOL" -> "https://solana-rpc.publicnode.com"
      [] chain = "ETH" -> "https://api.etherscan.io/api"
      [] OTHER -> "https://api.bscscan.com/api"

Ok(iv, endpoint) == [iv EXCEPT !.okCalls = @ \cup {endpoint}]
Failed(iv, endpoint) == [iv EXCEPT !.failedCalls = @ \cup {endpoint}]

\* Responses of the explorers and of the RPC node.  Amounts are in whole
\* coins: the division by 10^8, 10^18 or 10^9 is done.  "throw" stands for a
\* network exception, a body that is not JSON, and a body whose shape makes
\* the code that reads it throw: all three raise inside the try block.
BalanceOutcomes ==
    {[kind |-> "throw", status |-> "1", balance |-> 0, txCount |-> 0],
     [kind |-> "nonok", status |-> "1", balance |-> 0, txCount |-> 0],
     [kind |-> "ok", status |-> "0", balance |-> 0, txCount |-> 0],
     [kind |-> "ok", status |-> "1", balance |-> 2, txCount |-> 5]}

TxListOutcomes ==
    {[kind |-> "throw", txs |-> <<>>],
     [kind |-> "nonok", txs |-> <<>>],
     [kind |-> "ok", txs |-> <<>>],
     [kind |-> "ok", txs |-> <<[type |-> "receive", amount |-> 1, nonce |-> 4,
                                confirmed |-> TRUE]>>],
     [kind |-> "ok", txs |-> <<[type |-> "receive", amount |-> 1, nonce |-> 4,
                                confirmed |-> FALSE]>>]}

\* uiAmount of each token account, in thousandths of a token.
TokenLists ==
    {<<>>,
     <<5, 10, 2000>>,
     <<20, 9, 30, 40, 50, 60, 70, 80, 90, 100, 110, 120, 130>>}
TokenOutcomes ==
    {[kind |-> "throw", value |-> <<>>], [kind |-> "nonok", value |-> <<>>]}
        \cup {[kind |-> "ok", value |-> l] : l \in TokenLists}

\* } catch (e) { console.error(...); return stats; }
\* A catch block that throws the error on.
fetchStats_rethrow(iv) == Step(iv, "throw")

fetchBTCStats_catch(iv) == Step(iv, "return")

fetchEVMStats_catch(iv) == Step(iv, "return")

fetchSolanaStats_catch(iv) == Step(iv, "return")

\* ---- fetchBTCStats
fetchBTCStats_afterBalance(iv, o) ==
    CASE o.kind = "throw" -> fetchBTCStats_catch(Failed(iv, "balance"))
      [] o.kind = "nonok" -> Step(Failed(iv, "balance"), "return")
      [] OTHER ->
            Step([Ok(iv, "balance") EXCEPT !.stats.balance = o.balance,
                                           !.stats.txCount = o.txCount],
                 "txlist")

fetchBTCStats_afterTxs(iv, o) ==
    CASE o.kind = "throw" -> fetchBTCStats_catch(Failed(iv, "txlist"))
      [] o.kind = "nonok" -> Step(Failed(iv, "txlist"), "return")
      [] o.txs = <<>> -> Step(Ok(iv, "txlist"), "return")
      [] OTHER ->
            \* const prices = await fetchTokenPrices(['bitcoin'])
            Step([Ok(iv, "txlist") EXCEPT
                    !.lastTx = [present |-> TRUE, type |-> o.txs[1].type,
                                amount |-> o.txs[1].amount, amountUSD |-> 0,
                                priceUSD |-> 0, confirmed |-> o.txs[1].confirmed]],
                 "price")

fetchBTCStats_afterPrice(iv, btcPrice) ==
    LET withTx == [iv EXCEPT !.nativePrice = btcPrice,
                             !.stats.latestTransaction =
                                [iv.lastTx EXCEPT !.priceUSD = btcPrice,
                                                  !.amountUSD = iv.lastTx.amount * btcPrice]]
    IN  \* new Date(undefined * 1000).toISOString() throws a RangeError for a
        \* transaction that is not in a block yet
        IF ~iv.lastTx.confirmed THEN fetchBTCStats_catch(withTx)
        ELSE Step([withTx EXCEPT !.stats.firstTxDate = "fromTx"], "return")

\* ---- fetchEVMStats
\* fetchEVMStats asking for the balance again after a status that is not OK.
fetchEVMStats_afterBalance_retries(iv, o) ==
    CASE o.kind = "throw" -> fetchEVMStats_catch(Failed(iv, "balance"))
      [] o.kind = "nonok" -> Step(Failed(iv, "balance"), "balance")
      [] o.status = "1" ->
            Step([Ok(iv, "balance") EXCEPT !.stats.balance = o.balance], "price")
      [] OTHER -> Step(Ok(iv, "balance"), "price")

fetchEVMStats_afterBalance(iv, o) ==
    CASE o.kind = "throw" -> fetchEVMStats_catch(Failed(iv, "balance"))
      [] o.kind = "nonok" -> Step(Failed(iv, "balance"), "price")
      [] o.status = "1" ->
            Step([Ok(iv, "balance") EXCEPT !.stats.balance = o.balance], "price")
      [] OTHER -> Step(Ok(iv, "balance"), "price")

fetchEVMStats_afterPrice(iv, nativePrice) ==
    Step([iv EXCEPT !.nativePrice = nativePrice], "txlist")

fetchEVMStats_afterTxs(iv, o) ==
    CASE o.kind = "throw" -> fetchEVMStats_catch(Failed(iv, "txlist"))
      [] o.kind = "nonok" -> Step(Failed(iv, "txlist"), "firsttx")
      [] o.txs = <<>> -> Step(Ok(iv, "txlist"), "firsttx")
      [] OTHER ->
            Step([Ok(iv, "txlist") EXCEPT
                    !.stats.txCount = o.txs[1].nonce + 1,
                    !.stats.latestTransaction =
                        [present |-> TRUE, type |-> o.txs[1].type,
                         amount |-> o.txs[1].amount,
                         amountUSD |-> o.txs[1].amount * iv.nativePrice,
                         priceUSD |-> iv.nativePrice, confirmed |-> TRUE]],
                 "firsttx")

fetchEVMStats_afterFirstTx(iv, o) ==
    CASE o.kind = "throw" -> fetchEVMStats_catch(Failed(iv, "firsttx"))
      [] o.kind = "nonok" -> Step(Failed(iv, "firsttx"), "return")
      [] o.txs = <<>> -> Step(Ok(iv, "firsttx"), "return")
      [] OTHER -> Step([Ok(iv, "firsttx") EXCEPT !.stats.firstTxDate = "fromTx"],
                       "return")

\* ---- fetchSolanaStats
fetchSolanaStats_afterBalance(iv, o) ==
    CASE o.kind = "throw" -> fetchSolanaStats_catch(Failed(iv, "balance"))
      [] o.kind = "nonok" -> Step(Failed(iv, "balance"), "price")
      [] OTHER ->
            Step([Ok(iv, "balance") EXCEPT !.stats.balance = o.balance], "price")

fetchSolanaStats_afterPrice(iv, solPrice) ==
    Step([iv EXCEPT !.nativePrice = solPrice], "txlist")

\* fetchSolanaStats_afterTxs without its test of sigRes.ok.
fetchSolanaStats_afterTxs_ignoresStatus(iv, o) ==
    IF o.kind = "throw" THEN fetchSolanaStats_catch(Failed(iv, "txlist"))
    ELSE Step([(IF o.kind = "nonok" THEN Failed(iv, "txlist") ELSE Ok(iv, "txlist"))
                  EXCEPT !.stats.txCount = 100,
                         !.stats.latestTransaction =
                            [present |-> TRUE, type |-> "send", amount |-> 0,
                             amountUSD |-> 0, priceUSD |-> iv.nativePrice,
                             confirmed |-> TRUE]],
              "tokens")

fetchSolanaStats_afterTxs(iv, o) ==
    CASE o.kind = "throw" -> fetchSolanaStats_catch(Failed(iv, "txlist"))
      [] o.kind = "nonok" -> Step(Failed(iv, "txlist"), "tokens")
      [] o.txs = <<>> -> Step(Ok(iv, "txlist"), "tokens")
      [] OTHER ->
            Step([Ok(iv, "txlist") EXCEPT
                    !.stats.txCount = 100,
                    !.stats.latestTransaction =
                        [present |-> TRUE, type |-> "send", amount |-> 0,
                         amountUSD |-> 0, priceUSD |-> iv.nativePrice,
                         confirmed |-> TRUE]],
                 "tokens")

\* .map(t => amount < 0.01 ? null : {...}).filter(t => t !== null).slice(0, 10)
TokenThreshold == 10
TokenLimit == 10
AboveThreshold(t) == t.balance >= TokenThreshold

\* A token list that is filtered and not cut.
SplTokens_uncut(value) ==
    SelectSeq([i \in 1..Len(value) |-> [balance |-> value[i], mint |-> i]], AboveThreshold)

SplTokens(value) ==
    LET accounts == [i \in 1..Len(value) |-> [balance |-> value[i], mint |-> i]]
        kept == SelectSeq(accounts, AboveThreshold)
    IN  SubSeq(kept, 1, IF Len(kept) < TokenLimit THEN Len(kept) ELSE TokenLimit)

fetchSolanaStats_afterTokens(iv, o) ==
    CASE o.kind = "throw" -> fetchSolanaStats_catch(Failed(iv, "tokens"))
      [] o.kind = "nonok" -> Step(Failed(iv, "tokens"), "return")
      [] OTHER -> Step([Ok(iv, "tokens") EXCEPT !.stats.tokens = SplTokens(o.value)],
                       "return")


\* ---- fetchWalletStats: the router
fetchBTCStats_start(iv) ==
    IF ~isValidAddress(iv.address, "BTC") THEN Step(iv, "return")
    ELSE Step(iv, "balance")

fetchEVMStats_start(iv) ==
    IF ~isValidAddress(iv.address, iv.chain) THEN Step(iv, "return")
    ELSE Step(iv, "balance")

fetchSolanaStats_start(iv) ==
    IF ~isValidAddress(iv.address, "SOL") THEN Step(iv, "return")
    ELSE Step(iv, "balance")

fetchWalletStats_route(iv) ==
    CASE iv.chain = "BTC" -> fetchBTCStats_start(iv)
      [] iv.chain = "SOL" -> fetchSolanaStats_start(iv)
      [] OTHER -> fetchEVMStats_start(iv)

AfterBalance(iv, o) ==
    CASE iv.chain = "BTC" -> fetchBTCStats_afterBalance(iv, o)
      [] iv.chain = "SOL" -> fetchSolanaStats_afterBalance(iv, o)
      [] OTHER -> fetchEVMStats_afterBalance(iv, o)

AfterPrice(iv, price) ==
    CASE iv.chain = "BTC" -> fetchBTCStats_afterPrice(iv, price)
      [] iv.chain = "SOL" -> fetchSolanaStats_afterPrice(iv, price)
      [] OTHER -> fetchEVMStats_afterPrice(iv, price)

AfterTxs(iv, o) ==
    CASE iv.chain = "BTC" -> fetchBTCStats_afterTxs(iv, o)
      [] iv.chain = "SOL" -> fetchSolanaStats_afterTxs(iv, o)
      [] OTHER -> fetchEVMStats_afterTxs(iv, o)

\* ---- fetchTokenPrices([id]) as a fetcher calls it, up to its await, or to
\* its end when the id is not missing (the fetcher then goes on in the same
\* task)
fetchTokenPrices_start(taken, cache, now) ==
    LET ids == <<getCoingeckoId(taken.iv.chain)>>
        called == [taken.iv EXCEPT !.now = now]
    IN  IF taken.next # "price" THEN taken
        ELSE IF MissingIds(cache, ids, now) # <<>>
        THEN Step([called EXCEPT !.ftp = "issued"], "price")
        ELSE AfterPrice([called EXCEPT !.ftp = "cached"],
                        fetchTokenPrices_result(cache, ids)[ids[1]])

(***************************************************************************)
(* services/chain.ts: the history synthesizer of fetchWalletStats.         *)
(* Math.random() is a choice among a few sequences of daily factors, in    *)
(* percent; values are whole USD.  The clock is read once per entry and    *)
(* may advance by a millisecond from one read on.                          *)
(***************************************************************************)
RandomFactors == <<95, 104, 102>>
Change(i, seed) == RandomFactors[((i + seed) % Len(RandomFactors)) + 1]

ClockRead(now0, i, tick) == now0 + (IF i >= tick.at THEN tick.drift ELSE 0)

\* new Date(ms - i * 24 * 60 * 60 * 1000).toISOString().split('T')[0], as the
\* number of the UTC day: floor((ms - i * DAY_MS) / DAY_MS) = floor(ms / DAY_MS) - i
DateOf(ms, i) == (ms \div DAY_MS) - i

Max0(v) == IF v > 0 THEN v ELSE 0

Reverse(s) == [j \in 1..Len(s) |-> s[Len(s) + 1 - j]]

EarlierOf(a, b) == IF a < b THEN a ELSE b

\* LoopBody that makes no entry in its first pass (a loop from 1).
LoopBody_skipsFirstPass(i, st, now0, tick, seed) ==
    [made |-> IF i = 0 THEN st.made
              ELSE Append(st.made, [date |-> (ClockRead(now0, i, tick) \div DAY_MS) - i,
                                    value |-> IF st.simulatedVal > 0
                                              THEN st.simulatedVal ELSE 0]),
     simulatedVal |-> (st.simulatedVal * 100) \div Change(i, seed)]

\* One pass of the loop body:
\*   history.unshift({date, value: Math.max(0, simulatedVal)});
\*   simulatedVal = simulatedVal / change;
\* made holds the entries in the order the loop makes them: history is its reverse.
LoopBody(i, st, now0, tick, seed) ==
    [made |-> Append(st.made, [date |-> DateOf(ClockRead(now0, i, tick), i),
                               value |-> Max0(st.simulatedVal)]),
     simulatedVal |-> (st.simulatedVal * 100) \div Change(i, seed)]

RECURSIVE HistoryPasses(_, _, _, _, _, _)
\* The passes i .. stop - 1.
HistoryPasses(i, stop, st, now0, tick, seed) ==
    IF i >= stop \/ Len(st.made) < 0 THEN st
    ELSE HistoryPasses(i + 1, stop, LoopBody(i, st, now0, tick, seed),
                       now0, tick, seed)

RECURSIVE HistoryLoop(_, _, _, _, _, _)
\* for (let i = 0; i < days; i++) {...}, evaluated twenty passes at a time to
\* keep the evaluation shallow.
HistoryLoop(i, n, st, now0, tick, seed) ==
    IF i >= n \/ Len(st.made) < 0 THEN st
    ELSE HistoryLoop(EarlierOf(i + 20, n), n,
                     HistoryPasses(i, EarlierOf(i + 20, n), st, now0, tick, seed),
                     now0, tick, seed)

SynthesizeHistory(currentTotalValueUSD, now0, tick, seed) ==
    LET history == Reverse(HistoryLoop(0, days,
                                       [made |-> <<>>,
                                        simulatedVal |-> currentTotalValueUSD],
                                       now0, tick, seed).made)
    IN  \* history[history.length - 1].value = currentTotalValueUSD
        [history EXCEPT ![Len(history)].value = currentTotalValueUSD]

\* What the history loop meets: the pass from which the clock reads one
\* millisecond more, and the random sequence.
LoopRuns ==
    {[at |-> 0, drift |-> 0, seed |-> 0],
     [at |-> 1, drift |-> 1, seed |-> 1],
     [at |-> days - 1, drift |-> 1, seed |-> 2]}

\* How long the clock advances between two tasks: past the lifetime of a
\* cache entry (SpecChain); to the end of the lifetime or past it (SpecPrices).
ChainTickSteps == {PRICE_CACHE_TTL + 1}
PriceTickSteps == {PRICE_CACHE_TTL, PRICE_CACHE_TTL + 1}
StartOfRun == DAY_MS - 1

RECURSIVE ClocksAfter(_)
\* The values of the clock after at most n advances.
ClocksAfter(n) ==
    IF n = 0 THEN {StartOfRun}
    ELSE LET before == ClocksAfter(n - 1)
         IN  before \cup {t + d : t \in before, d \in ChainTickSteps \cup {1}}

\* The histories the model can meet, each synthesized once:
\* History[v, t, run] = SynthesizeHistory(v, t, run, run.seed).
UsdValues == {b * p : b \in {o.balance : o \in BalanceOutcomes}, p \in FeedPrices \cup {0}}
History ==
    [v \in UsdValues, t \in ClocksAfter(MaxTicks), run \in LoopRuns |->
        SynthesizeHistory(v, t, run, run.seed)]

NoResult ==
    [settled |-> "none", address |-> <<>>, chain |-> "BTC",
     stats |-> DefaultStats, history |-> <<>>, isSimulatedHistory |-> FALSE,
     ftp |-> "none", okCalls |-> {}, failedCalls |-> {}, issued |-> <<>>,
     price |-> 0, synthAt |-> 0]

\* What fetchWalletStats does with what the fetcher did: a throw is not
\* caught (the promise rejects); a return gets its history.
fetchWalletStats_settle(iv, kind, cache, now0, run) ==
    LET price == CachedPrice(cache, getCoingeckoId(iv.chain))
        currentTotalValueUSD == iv.stats.balance * price
        base == [NoResult EXCEPT !.address = iv.address,
                                 !.chain = iv.chain, !.ftp = iv.ftp,
                                 !.okCalls = iv.okCalls,
                                 !.failedCalls = iv.failedCalls,
                                 !.issued = iv.issued,
                                 !.price = price, !.synthAt = now0]
    IN  IF kind = "throw" THEN [base EXCEPT !.settled = "rejected"]
        ELSE [base EXCEPT !.settled = "resolved", !.stats = iv.stats,
                          !.history = History[currentTotalValueUSD, now0, run],
                          !.isSimulatedHistory = TRUE]

(***************************************************************************)
(* SpecChain: fetchWalletStats is called, the responses of the explorers,  *)
(* of the RPC node and of the price API arrive, and time passes.  One call *)
(* is in flight at a time; the price cache lives on from call to call.     *)
(***************************************************************************)
FetchInputs ==
    {<<BtcAddress, "BTC">>, <<EthAddress, "ETH">>, <<EthAddress, "BNB">>,
     <<SolAddress, "SOL">>, <<NotAnAddress, "BTC">>, <<<<>>, "ETH">>,
     <<EthAddress, "SOL">>,
     \* the letter O, which no Bitcoin address contains
     <<<<"1">> \o Rep("O", 33), "BTC">>}

PriceCallers == {"p1", "p2"}

IdleCall ==
    [pc |-> "idle", ids |-> <<>>, now |-> 0, missingIds |-> <<>>,
     \* history: lastStored when the invocation started
     seen |-> [id \in CoinIds |-> Never],
     \* history: how the upstream request ended
     response |-> "none",
     result |-> <<>>]

InitChain ==
    /\ clock = StartOfRun
    /\ priceCache = [id \in CoinIds |-> NoEntry]
    /\ inv = IdleInvocation
    /\ result = NoResult
    /\ calls = [c \in PriceCallers |-> IdleCall]
    /\ lastStored = [id \in CoinIds |-> Never]
    /\ nInvocations = 0
    /\ nPriceCalls = 0
    /\ nTicks = 0

\* The rest of the task that taken0 is part of, with cache the price cache as
\* the task has left it so far.
Proceed(taken0, cache) ==
    LET taken == fetchTokenPrices_start(taken0, cache, clock)
    IN  IF taken.next \in {"return", "throw"}
        THEN /\ inv' = IdleInvocation
             /\ \E run \in LoopRuns :
                   /\ nTicks + run.drift <= MaxTicks
                   /\ result' = fetchWalletStats_settle(taken.iv, taken.next, cache,
                                                         clock, run)
                   /\ clock' = clock + run.drift
                   /\ nTicks' = nTicks + run.drift
        ELSE /\ inv' = [taken.iv EXCEPT !.pc = taken.next,
                                       !.issued = Append(@, taken.next)]
             /\ result' = NoResult
             /\ UNCHANGED <<clock, nTicks>>

Call ==
    /\ inv.pc = "idle"
    /\ nInvocations < MaxInvocations
    /\ nInvocations' = nInvocations + 1
    /\ \E input \in FetchInputs :
          Proceed(fetchWalletStats_route([IdleInvocation EXCEPT
                                             !.address = input[1],
                                             !.chain = input[2]]),
                  priceCache)
    /\ UNCHANGED <<priceCache, lastStored, calls, nPriceCalls>>
    /\ UNCHANGED <<wizardVars, pageVars, storageVars>>

BalanceResponse ==
    /\ inv.pc = "balance"
    /\ \E o \in BalanceOutcomes : Proceed(AfterBalance(inv, o), priceCache)
    /\ UNCHANGED <<priceCache, lastStored, nInvocations, calls, nPriceCalls>>
    /\ UNCHANGED <<wizardVars, pageVars, storageVars>>

PriceResponse ==
    /\ inv.pc = "price"
    /\ LET ids == <<getCoingeckoId(inv.chain)>>
       IN  \E o \in PriceOutcomes(ids) :
              LET cache == fetchTokenPrices_afterResponse(priceCache, inv.now, o)
                  iv == IF o.kind = "ok" /\ ids[1] \in DOMAIN o.data
                        THEN Ok(inv, "price") ELSE Failed(inv, "price")
              IN  /\ priceCache' = cache
                  /\ lastStored' = [id \in CoinIds |->
                                       IF o.kind = "ok" /\ id \in DOMAIN o.data
                                       THEN inv.now ELSE lastStored[id]]
                  /\ Proceed(AfterPrice(iv, fetchTokenPrices_result(cache, ids)[ids[1]]),
                             cache)
    /\ UNCHANGED <<nInvocations, calls, nPriceCalls>>
    /\ UNCHANGED <<wizardVars, pageVars, storageVars>>

TxListResponse ==
    /\ inv.pc = "txlist"
    /\ \E o \in TxListOutcomes : Proceed(AfterTxs(inv, o), priceCache)
    /\ UNCHANGED <<priceCache, lastStored, nInvocations, calls, nPriceCalls>>
    /\ UNCHANGED <<wizardVars, pageVars, storageVars>>

FirstTxResponse ==
    /\ inv.pc = "firsttx"
    /\ \E o \in TxListOutcomes :
          Proceed(fetchEVMStats_afterFirstTx(inv, o), priceCache)
    /\ UNCHANGED <<priceCache, lastStored, nInvocations, calls, nPriceCalls>>
    /\ UNCHANGED <<wizardVars, pageVars, storageVars>>

TokensResponse ==
    /\ inv.pc = "tokens"
    /\ \E o \in TokenOutcomes :
          Proceed(fetchSolanaStats_afterTokens(inv, o), priceCache)
    /\ UNCHANGED <<priceCache, lastStored, nInvocations, calls, nPriceCalls>>
    /\ UNCHANGED <<wizardVars, pageVars, storageVars>>

\* Time passes between two tasks.
Tick(steps) ==
    /\ nTicks < MaxTicks
    /\ nTicks' = nTicks + 1
    /\ \E d \in steps : clock' = clock + d
    /\ result' = NoResult
    /\ UNCHANGED <<priceCache, inv, calls, lastStored, nInvocations, nPriceCalls>>
    /\ UNCHANGED <<wizardVars, pageVars, storageVars>>

NextChain ==
    \/ Call
    \/ BalanceResponse
    \/ PriceResponse
    \/ TxListResponse
    \/ FirstTxResponse
    \/ TokensResponse
    \/ Tick(ChainTickSteps)

(***************************************************************************)
(* SpecPrices: fetchTokenPrices invocations that overlap.  The dashboard   *)
(* starts one fetchWalletStats per row without waiting, so that several    *)
(* fetchTokenPrices invocations can be waiting for the price API at once;  *)
(* their responses arrive in any order.                                    *)
(***************************************************************************)
IdLists == {<<"bitcoin">>, <<"ethereum">>, <<"bitcoin", "ethereum">>}

fetchTokenPrices_call(c) ==
    /\ calls[c].pc # "waiting"
    /\ nPriceCalls < MaxPriceCalls
    /\ nPriceCalls' = nPriceCalls + 1
    /\ \E ids \in IdLists :
          LET missingIds == MissingIds(priceCache, ids, clock)
              started == [IdleCall EXCEPT !.ids = ids, !.now = clock,
                                          !.missingIds = missingIds,
                                          !.seen = lastStored]
          IN  calls' = [calls EXCEPT ![c] =
                  IF missingIds # <<>> THEN [started EXCEPT !.pc = "waiting"]
                  ELSE [started EXCEPT !.pc = "done",
                                       !.result = fetchTokenPrices_result(priceCache, ids)]]
    /\ UNCHANGED <<clock, priceCache, inv, result, lastStored, nInvocations, nTicks>>
    /\ UNCHANGED <<wizardVars, pageVars, storageVars>>

fetchTokenPrices_response(c) ==
    /\ calls[c].pc = "waiting"
    /\ \E o \in PriceOutcomes(calls[c].missingIds) :
          LET cache == fetchTokenPrices_afterResponse(priceCache, calls[c].now, o)
          IN  /\ priceCache' = cache
              /\ lastStored' = [id \in CoinIds |->
                                   IF o.kind = "ok" /\ id \in DOMAIN o.data
                                   THEN calls[c].now ELSE lastStored[id]]
              /\ calls' = [calls EXCEPT ![c].pc = "done",
                                        ![c].response = o.kind,
                                        ![c].result =
                                            fetchTokenPrices_result(cache, calls[c].ids)]
    /\ UNCHANGED <<clock, inv, result, nInvocations, nPriceCalls, nTicks>>
    /\ UNCHANGED <<wizardVars, pageVars, storageVars>>

NextPrices ==
    \/ \E c \in PriceCallers : fetchTokenPrices_call(c)
    \/ \E c \in PriceCallers : fetchTokenPrices_response(c)
    \/ Tick(PriceTickSteps)

(***************************************************************************)
(* services/wallet.ts: what a call of the wallet service can come to.      *)
(* The browser wallet and the user decide; the address a wallet gives is   *)
(* an address of its chain.                                                *)
(***************************************************************************)
NoWallet == [address |-> <<>>, chain |-> "none", provider |-> "none"]

\* undefined, where a UserProfile is expected
NoProfile ==
    [id |-> <<"none">>, username |-> <<>>, address |-> <<>>, chain |-> "none",
     createdAt |-> 0]

\* How a call settles: rejected with an Error, or fulfilled with a wallet
\* (connect), with a boolean (sign) or with a row (createProfile).
Rejected(message) ==
    [ok |-> FALSE, message |-> message, wallet |-> NoWallet, isValid |-> FALSE,
     profile |-> NoProfile]
Connected(wallet) ==
    [ok |-> TRUE, message |-> "", wallet |-> wallet, isValid |-> FALSE,
     profile |-> NoProfile]
Signed(isValid) ==
    [ok |-> TRUE, message |-> "", wallet |-> NoWallet, isValid |-> isValid,
     profile |-> NoProfile]
Inserted(profile) ==
    [ok |-> TRUE, message |-> "", wallet |-> NoWallet, isValid |-> FALSE,
     profile |-> profile]

connectEVM ==
    {Rejected("No EVM wallet detected. Please install MetaMask, Rabby, or Trust Wallet."),
     Rejected("User rejected connection.")}
        \cup {Connected([address |-> EthAddress, chain |-> c, provider |-> "metamask"]) :
                    c \in {"ETH", "BNB"}}

connectSolana ==
    {Rejected("Solana wallet not detected. Please install Phantom or Backpack."),
     Rejected("User rejected Solana connection."),
     Connected([address |-> SolAddress, chain |-> "SOL", provider |-> "phantom"])}

\* `Sign this message to verify ownership of wallet ${address} for
\* VerifiedOnChain.\n\nTimestamp: ${timestamp}\nNonce: ${nonce}`
createVerificationMessage(address, timestamp, nonce) ==
    <<"Sign this message to verify ownership of wallet ", address,
      " for VerifiedOnChain.\n\nTimestamp: ", timestamp, "\nNonce: ", nonce>>

\* What the browser wallet does when it is asked to sign: whether one is
\* injected, the account it reports (none: asking for it throws), and
\* whether the user rejects, the wallet resolves without a signature, or it
\* resolves with a signature over the message made with the key of signedBy.
BrowserWallets(accounts, keys) ==
    {[installed |-> FALSE, account |-> <<>>, reply |-> "rejected", signedBy |-> <<>>]} \cup
    {[installed |-> TRUE, account |-> a, reply |-> r[1], signedBy |-> r[2]] :
        a \in accounts,
        r \in {<<"rejected", <<>>>>, <<"nothing", <<>>>>} \cup {<<"signature", k>> : k \in keys}}
EvmWallets == BrowserWallets({<<>>, EthAddressUpper, OtherEthAddress},
                             {EthAddressUpper, OtherEthAddress})
SolanaWallets == BrowserWallets({SolAddress}, {SolAddress, OtherSolAddress})

\* signEVM without the comparison of the signer's address.
signEVM_noSignerCheck(address, message, w) ==
    IF ~w.installed THEN Rejected("Wallet disconnected.")
    ELSE IF w.account = <<>> \/ w.reply # "signature"
         THEN Rejected("Signature rejected or failed.")
         ELSE Signed(toLowerCase(w.signedBy) = toLowerCase(address))

\* signEVM: ethers.verifyMessage(message, signature) recovers the address of
\* the key that signed; every exception inside the try block, the "Wallet
\* mismatch" one included, becomes "Signature rejected or failed."
signEVM(address, message, w) ==
    IF ~w.installed THEN Rejected("Wallet disconnected.")
    ELSE IF \/ w.account = <<>>
            \/ toLowerCase(w.account) # toLowerCase(address)
            \/ w.reply # "signature"
         THEN Rejected("Signature rejected or failed.")
         ELSE Signed(toLowerCase(w.signedBy) = toLowerCase(address))

\* signSolana checking that the signature was made with the key of address.
signSolana_verifies(address, message, w) ==
    IF ~w.installed THEN Rejected("Wallet disconnected.")
    ELSE IF w.reply = "rejected" THEN Rejected("Signature rejected.")
         ELSE Signed(w.reply = "signature" /\ w.signedBy = address)

\* signSolana: return !!signedMessage.signature
signSolana(address, message, w) ==
    IF ~w.installed THEN Rejected("Wallet disconnected.")
    ELSE IF w.reply = "rejected" THEN Rejected("Signature rejected.")
         ELSE Signed(w.reply = "signature")

(***************************************************************************)
(* services/storage.ts.  The profiles table is kept by the hosted store;   *)
(* its constraints are not in the source.  The model takes the strictest   *)
(* table, one that refuses a second row with the same id or with the same  *)
(* username up to case, so that what fails here fails for every table.     *)
(***************************************************************************)
\* Math.random() in [0, 1), as the digits of its fraction in base 36: 0,
\* 0.5 and a number with a long fraction.
RandomValues ==
    {<<>>, <<"i">>, <<"4", "f", "z", "y", "o", "8", "2", "m", "v", "y", "r">>}

\* Math.random().toString(36).substr(2, 9)
NewId(random) ==
    LET text == IF random = <<>> THEN <<"0">> ELSE <<"0", ".">> \o random
    IN  IF Len(text) < 3 THEN <<>>
        ELSE SubSeq(text, 3, IF Len(text) < 11 THEN Len(text) ELSE 11)

\* const newProfile = { id: ..., created_at: Date.now(), ... }
newProfile(profile, random, now) ==
    [id |-> NewId(random), username |-> profile.username, address |-> profile.address,
     chain |-> profile.chain, created_at |-> now]

\* { id: row.id, ..., createdAt: Number(row.created_at), ... }
ToProfile(row) ==
    [id |-> row.id, username |-> row.username, address |-> row.address,
     chain |-> row.chain, createdAt |-> row.created_at]

\* { data, error } of .insert([row]).select().single(): an error with or
\* without a message, or the row as it was stored
InsertReplies(profiles, row) ==
    {[failed |-> TRUE, message |-> m, data |-> row] :
        m \in {"duplicate key value violates unique constraint", ""}}
    \cup (IF \E i \in 1..Len(profiles) :
                \/ profiles[i].id = row.id
                \/ toLowerCase(profiles[i].username) = toLowerCase(row.username)
          THEN {}
          ELSE {[failed |-> FALSE, message |-> "", data |-> row]})

\* createProfile resolving with undefined when the insert fails.
createProfile_swallowsError(reply) ==
    IF reply.failed THEN Inserted(NoProfile) ELSE Inserted(ToProfile(reply.data))

\* createProfile, from its await on:
\* throw new Error(error.message || 'Failed to create profile')
createProfile(reply) ==
    IF reply.failed
    THEN Rejected(IF reply.message = "" THEN "Failed to create profile" ELSE reply.message)
    ELSE Inserted(ToProfile(reply.data))

\* .ilike('username', username): equal up to case, "_" in the pattern
\* standing for any one character
ILike(value, pattern) ==
    /\ Len(value) = Len(pattern)
    /\ \A i \in 1..Len(value) : pattern[i] = "_" \/ Fold(value[i]) = Fold(pattern[i])

\* getProfileByUsername: the row .single() finds; undefined when no row or
\* several rows match, and on any error or exception
getProfileByUsername(profiles, username, reachable) ==
    LET found == {i \in 1..Len(profiles) : ILike(profiles[i].username, username)}
    IN  IF reachable /\ Cardinality(found) = 1
        THEN ToProfile(profiles[CHOOSE i \in found : TRUE])
        ELSE NoProfile

\* getAllProfiles without .order('created_at', { ascending: false }).
getAllProfiles_unordered(profiles, reachable) ==
    IF ~reachable THEN {<<>>}
    ELSE {[i \in 1..Len(profiles) |-> ToProfile(profiles[f[i]])] :
            f \in {g \in [1..Len(profiles) -> 1..Len(profiles)] :
                    \A i, j \in 1..Len(profiles) : i # j => g[i] # g[j]}}

\* getAllProfiles: [] on any error or exception, otherwise the rows as the
\* store orders them by created_at, newest first (rows of the same
\* created_at in any order)
getAllProfiles(profiles, reachable) ==
    IF ~reachable THEN {<<>>}
    ELSE {[i \in 1..Len(profiles) |-> ToProfile(profiles[f[i]])] :
            f \in {g \in [1..Len(profiles) -> 1..Len(profiles)] :
                    /\ \A i, j \in 1..Len(profiles) : i # j => g[i] # g[j]
                    /\ \A i, j \in 1..Len(profiles) :
                          i < j => profiles[g[i]].created_at >= profiles[g[j]].created_at}}

(***************************************************************************)
(* components/SubmitForm.tsx: the submission wizard.                       *)
(***************************************************************************)
NoError == <<>>

\* A catch block that shows nothing.
MessageOr_silent(message, fallback) == <<>>

\* e.message || "..."
MessageOr(message, fallback) == IF message = "" THEN <<fallback>> ELSE <<message>>

\* A message that does not say which chain the address was checked for.
InvalidAddressError_noChain(chain) == <<"Invalid address.">>

\* `Invalid ${formData.chain} address.`
InvalidAddressError(chain) == <<"Invalid ", chain, " address.">>

\* A check of the length alone.
MatchesUsername_lengthOnly(username) == Len(username) \in 3..20

\* formData.username.match(/^[a-zA-Z0-9_]{3,20}$/)
MatchesUsername(username) ==
    /\ Len(username) \in 3..20
    /\ AllFrom(username, 1, AlphaNumeric \cup {"_"})

\* What the user types.
TypedAddresses == {BtcAddress, EthAddress, NotAnAddress, <<>>}
TypedUsernames ==
    {<<"a", "l", "i", "c", "e">>, <<"a", "l">>, <<"a", "l", "!", "c", "e">>,
     <<"A", "_", "1">>, Rep("a", 21)}

SubmitPage == [page |-> "/submit", username |-> <<>>]
ProfilePath(username) == [page |-> "/u/", username |-> username]

\* Math.floor(Math.random() * 1000000)
Nonces == {0, 999999}

NothingSettled == [call |-> "none"]

InitWizard ==
    /\ step = "connect"
    /\ mode = "wallet"
    /\ isLoading = FALSE
    /\ error = NoError
    /\ formData = [username |-> <<>>, address |-> <<>>, chain |-> "ETH"]
    /\ connectedWallet = NoWallet
    /\ pending = {}
    /\ createCalls = {}
    /\ location = SubmitPage
    /\ event = "mount"
    /\ settled = NothingSettled

\* The wizard is on the screen.
Shown == location = SubmitPage

\* onClick={() => setMode(m)}: the two buttons of the 'connect' step
setMode(m) ==
    /\ Shown /\ step = "connect"
    /\ mode' = m
    /\ event' = "setMode"
    /\ settled' = NothingSettled
    /\ UNCHANGED <<chainVars, pageVars, storageVars>>
    /\ UNCHANGED <<step, isLoading, error, formData, connectedWallet, pending,
                   createCalls, location>>

\* onClick={() => setFormData({...formData, chain: chain.code})}
chooseChain(c) ==
    /\ Shown /\ step = "connect" /\ mode = "manual"
    /\ formData' = [formData EXCEPT !.chain = c]
    /\ event' = "chooseChain"
    /\ settled' = NothingSettled
    /\ UNCHANGED <<chainVars, pageVars, storageVars>>
    /\ UNCHANGED <<step, mode, isLoading, error, connectedWallet, pending,
                   createCalls, location>>

\* onChange={e => setFormData({...formData, address: e.target.value})}
typeAddress(a) ==
    /\ Shown /\ step = "connect" /\ mode = "manual"
    /\ formData' = [formData EXCEPT !.address = a]
    /\ event' = "typeAddress"
    /\ settled' = NothingSettled
    /\ UNCHANGED <<chainVars, pageVars, storageVars>>
    /\ UNCHANGED <<step, mode, isLoading, error, connectedWallet, pending,
                   createCalls, location>>

\* onChange={e => setFormData({...formData, username: e.target.value})}
typeUsername(u) ==
    /\ Shown /\ step = "profile"
    /\ formData' = [formData EXCEPT !.username = u]
    /\ event' = "typeUsername"
    /\ settled' = NothingSettled
    /\ UNCHANGED <<chainVars, pageVars, storageVars>>
    /\ UNCHANGED <<step, mode, isLoading, error, connectedWallet, pending,
                   createCalls, location>>

\* handleConnect, up to its await
handleConnect(providerType) ==
    /\ Shown /\ step = "connect" /\ mode = "wallet" /\ ~isLoading
    /\ error' = NoError
    /\ isLoading' = TRUE
    /\ pending' = pending \cup {[call |-> "connect", providerType |-> providerType,
                                 wallet |-> NoWallet, payload |-> formData]}
    /\ event' = "handleConnect"
    /\ settled' = NothingSettled
    /\ UNCHANGED <<chainVars, pageVars, storageVars>>
    /\ UNCHANGED <<step, mode, formData, connectedWallet, createCalls, location>>

\* handleConnect, from its await on
handleConnect_settled(p) ==
    /\ Shown /\ p \in pending /\ p.call = "connect"
    /\ pending' = pending \ {p}
    /\ \E o \in (IF p.providerType = "evm" THEN connectEVM ELSE connectSolana) :
          /\ IF o.ok
             THEN /\ connectedWallet' = o.wallet
                  /\ formData' = [formData EXCEPT !.address = o.wallet.address,
                                                  !.chain = o.wallet.chain]
                  /\ step' = "verify"
                  /\ UNCHANGED error
             ELSE /\ error' = MessageOr(o.message, "Connection failed.")
                  /\ UNCHANGED <<connectedWallet, formData, step>>
          /\ settled' = [call |-> "connect", outcome |-> o]
    /\ isLoading' = FALSE
    /\ event' = "handleConnect_settled"
    /\ UNCHANGED <<chainVars, pageVars, storageVars>>
    /\ UNCHANGED <<mode, createCalls, location>>

\* handleVerifyOwnership, up to its await
handleVerifyOwnership ==
    /\ Shown /\ step = "verify" /\ connectedWallet # NoWallet /\ ~isLoading
    /\ error' = NoError
    /\ isLoading' = TRUE
    /\ pending' = pending \cup {[call |-> "sign", providerType |-> "none",
                                 wallet |-> connectedWallet, payload |-> formData]}
    /\ event' = "handleVerifyOwnership"
    /\ settled' = NothingSettled
    /\ UNCHANGED <<chainVars, pageVars, storageVars>>
    /\ UNCHANGED <<step, mode, formData, connectedWallet, createCalls, location>>

\* handleVerifyOwnership, from its await on
handleVerifyOwnership_settled(p) ==
    /\ Shown /\ p \in pending /\ p.call = "sign"
    /\ pending' = pending \ {p}
    /\ \E w \in (IF p.wallet.chain = "SOL" THEN SolanaWallets ELSE EvmWallets),
          t \in {"2025-01-01T00:00:00.000Z"}, n \in Nonces :
          LET message == createVerificationMessage(p.wallet.address, t, n)
              o == IF p.wallet.chain = "SOL"
                   THEN signSolana(p.wallet.address, message, w)
                   ELSE signEVM(p.wallet.address, message, w)
          IN  /\ IF o.ok
                 THEN IF o.isValid
                      THEN step' = "profile" /\ UNCHANGED error
                      ELSE error' = <<"Signature verification failed.">> /\ UNCHANGED step
                 ELSE error' = MessageOr(o.message, "Verification failed.") /\ UNCHANGED step
              /\ settled' = [call |-> IF p.wallet.chain = "SOL" THEN "signSolana"
                                                                ELSE "signEVM",
                             address |-> p.wallet.address, wallet |-> w, outcome |-> o]
    /\ isLoading' = FALSE
    /\ event' = "handleVerifyOwnership_settled"
    /\ UNCHANGED <<chainVars, pageVars, storageVars>>
    /\ UNCHANGED <<mode, formData, connectedWallet, createCalls, location>>

\* <button onClick={() => setStep('connect')}>Cancel</button>
cancelVerify ==
    /\ Shown /\ step = "verify" /\ connectedWallet # NoWallet
    /\ step' = "connect"
    /\ event' = "cancelVerify"
    /\ settled' = NothingSettled
    /\ UNCHANGED <<chainVars, pageVars, storageVars>>
    /\ UNCHANGED <<mode, isLoading, error, formData, connectedWallet, pending,
                   createCalls, location>>

\* A 'Continue Manually' that sends a valid address on to the 'verify' step
\* and keeps the wallet that was connected before.
handleManualNext_viaVerify ==
    /\ Shown /\ step = "connect" /\ mode = "manual"
    /\ IF ~isValidAddress(formData.address, formData.chain)
       THEN /\ error' = InvalidAddressError(formData.chain)
            /\ UNCHANGED step
       ELSE /\ error' = NoError
            /\ step' = "verify"
    /\ event' = "handleManualNext"
    /\ settled' = NothingSettled
    /\ UNCHANGED <<chainVars, pageVars, storageVars>>
    /\ UNCHANGED <<mode, isLoading, formData, connectedWallet, pending, createCalls,
                   location>>

\* handleManualNext: onClick of 'Continue Manually'
handleManualNext ==
    /\ Shown /\ step = "connect" /\ mode = "manual"
    /\ IF ~isValidAddress(formData.address, formData.chain)
       THEN /\ error' = InvalidAddressError(formData.chain)
            /\ UNCHANGED <<connectedWallet, step>>
       ELSE /\ error' = NoError
            /\ connectedWallet' = NoWallet
            /\ step' = "profile"
    /\ event' = "handleManualNext"
    /\ settled' = NothingSettled
    /\ UNCHANGED <<chainVars, pageVars, storageVars>>
    /\ UNCHANGED <<mode, isLoading, formData, pending, createCalls, location>>

\* handleSubmit, up to its await or to the end of its catch block
handleSubmit ==
    /\ Shown /\ step = "profile" /\ ~isLoading
    /\ formData.username # <<>>         \* <input type="text" required .../>
    /\ IF ~MatchesUsername(formData.username)
       THEN /\ error' = <<"Username must be 3-20 alphanumeric characters.">>
            /\ isLoading' = FALSE
            /\ UNCHANGED <<pending, createCalls>>
       ELSE /\ error' = NoError
            /\ isLoading' = TRUE
            /\ createCalls' = createCalls \cup {formData}
            /\ pending' = pending \cup {[call |-> "create", providerType |-> "none",
                                         wallet |-> NoWallet, payload |-> formData]}
    /\ event' = "handleSubmit"
    /\ settled' = NothingSettled
    /\ UNCHANGED <<chainVars, pageVars, storageVars>>
    /\ UNCHANGED <<step, mode, formData, connectedWallet, location>>

\* handleSubmit, from its await on
handleSubmit_settled(p) ==
    /\ Shown /\ p \in pending /\ p.call = "create"
    /\ pending' = pending \ {p}
    /\ \E random \in RandomValues :
        \E reply \in InsertReplies(<<>>, newProfile(p.payload, random, 1)) :
          LET o == createProfile(reply)
          IN  /\ IF o.ok
                 THEN /\ location' = ProfilePath(p.payload.username)
                      /\ UNCHANGED <<error, isLoading>>
                 ELSE /\ error' = MessageOr(o.message, "An error occurred")
                      /\ isLoading' = FALSE
                      /\ UNCHANGED location
              /\ settled' = [call |-> "createProfile", payload |-> p.payload,
                             reply |-> reply, outcome |-> o]
    /\ event' = "handleSubmit_settled"
    /\ UNCHANGED <<chainVars, pageVars, storageVars>>
    /\ UNCHANGED <<step, mode, formData, connectedWallet, createCalls>>

NextWizard ==
    \/ \E m \in {"wallet", "manual"} : setMode(m)
    \/ \E c \in Blockchain : chooseChain(c)
    \/ \E a \in TypedAddresses : typeAddress(a)
    \/ \E u \in TypedUsernames : typeUsername(u)
    \/ \E t \in {"evm", "solana"} : handleConnect(t)
    \/ \E p \in pending : handleConnect_settled(p)
    \/ handleVerifyOwnership
    \/ \E p \in pending : handleVerifyOwnership_settled(p)
    \/ cancelVerify
    \/ handleManualNext
    \/ handleSubmit
    \/ \E p \in pending : handleSubmit_settled(p)

(***************************************************************************)
(* services/storage.ts: the profiles table, as the pages read it.          *)
(***************************************************************************)
Alice == <<"a", "l", "i", "c", "e">>
Bob == <<"b", "o", "b">>

\* The rows of the table the pages read.
StoredProfiles ==
    <<[id |-> <<"p", "1">>, username |-> Alice, address |-> EthAddress, chain |-> "ETH",
       created_at |-> 2],
      [id |-> <<"p", "2">>, username |-> Bob, address |-> BtcAddress, chain |-> "BTC",
       created_at |-> 1]>>

(***************************************************************************)
(* components/Layout.tsx, ProfilePage.tsx, Dashboard.tsx.  A page keeps    *)
(* its state as long as it stays mounted; React ignores a state update of  *)
(* a page that is not mounted any more, but what the page had started      *)
(* goes on running.                                                        *)
(***************************************************************************)
DashboardPath == [page |-> "/", username |-> <<>>]
VisitedPaths == {DashboardPath} \cup {ProfilePath(u) : u \in {Alice, <<"A", "l", "i", "c", "e">>, Bob}}

NoStats == [address |-> <<>>, chain |-> "none", balance |-> 0]

\* What fetchWalletStats(address, chain) resolves with (it never rejects);
\* address and chain record what the stats were fetched for.
StatsFor(address, chain) ==
    {[address |-> address, chain |-> chain, balance |-> b] : b \in {0, 2}}

UnmountedProfilePage == [profile |-> NoProfile, stats |-> NoStats, loading |-> TRUE]

\* <Routes> alone: the page is mounted anew only when the route's element
\* changes.
MountAfterNavigation_noKey(m, from, to) ==
    IF from.page # to.page THEN m + 1 ELSE m

\* <main key={location.pathname}>: a new path mounts what is under main anew.
MountAfterNavigation(m, from, to) ==
    IF from # to THEN m + 1 ELSE m

\* useEffect(() => { loadProfile() }, [username]), up to its await
loadProfile(m, username) ==
    IF username # <<>>
    THEN {[kind |-> "getProfileByUsername", mount |-> m, username |-> username,
           row |-> NoProfile]}
    ELSE {}

\* useEffect(() => { loadData() }, []), up to its await
loadData(m) ==
    {[kind |-> "getAllProfiles", mount |-> m, username |-> <<>>, row |-> NoProfile]}

\* fetchWalletStats(p.address, p.chain), called and not awaited
StatsRequest(m, p) ==
    [kind |-> "fetchWalletStats", mount |-> m, username |-> <<>>, row |-> p]

NothingDelivered ==
    [kind |-> "none", stale |-> FALSE, address |-> <<>>, chain |-> "none"]

InitPages ==
    /\ route = DashboardPath
    /\ mount = 0
    /\ profilePage = UnmountedProfilePage
    /\ rows = <<>>
    /\ inflight = loadData(0)
    /\ delivered = NothingDelivered
    /\ nNavigations = 0

\* The user follows a link or edits the address bar.
Navigate(to) ==
    /\ to # route
    /\ nNavigations < MaxNavigations
    /\ nNavigations' = nNavigations + 1
    /\ route' = to
    /\ mount' = MountAfterNavigation(mount, route, to)
    /\ IF mount' # mount
       THEN /\ profilePage' = UnmountedProfilePage
            /\ rows' = <<>>
       ELSE UNCHANGED <<profilePage, rows>>
    /\ inflight' = inflight \cup (IF to.page = "/u/" THEN loadProfile(mount', to.username)
                                  ELSE loadData(mount'))
    /\ delivered' = NothingDelivered
    /\ UNCHANGED <<chainVars, wizardVars, storageVars>>

\* loadProfile, from its await on
loadProfile_settled(msg) ==
    /\ msg \in inflight /\ msg.kind = "getProfileByUsername"
    /\ \E p \in {getProfileByUsername(StoredProfiles, msg.username, up) : up \in BOOLEAN} :
          /\ inflight' = (inflight \ {msg})
                            \cup (IF p # NoProfile THEN {StatsRequest(msg.mount, p)} ELSE {})
          /\ IF msg.mount = mount
             THEN profilePage' = [profilePage EXCEPT
                                    !.profile = p,
                                    !.loading = IF p # NoProfile THEN @ ELSE FALSE]
             ELSE UNCHANGED profilePage
          /\ delivered' = [kind |-> msg.kind, stale |-> msg.mount # mount,
                           address |-> p.address, chain |-> p.chain]
    /\ UNCHANGED <<route, mount, rows, nNavigations>>
    /\ UNCHANGED <<chainVars, wizardVars, storageVars>>

\* loadData, from its await on
loadData_settled(msg) ==
    /\ msg \in inflight /\ msg.kind = "getAllProfiles"
    /\ \E profiles \in UNION {getAllProfiles(StoredProfiles, up) : up \in BOOLEAN} :
          /\ inflight' = (inflight \ {msg})
                            \cup {StatsRequest(msg.mount, profiles[i]) : i \in 1..Len(profiles)}
          /\ IF msg.mount = mount
             THEN rows' = [i \in 1..Len(profiles) |->
                              [id |-> profiles[i].id, username |-> profiles[i].username,
                               address |-> profiles[i].address, chain |-> profiles[i].chain,
                               stats |-> NoStats, loading |-> TRUE, usdBalance |-> 0]]
             ELSE UNCHANGED rows
    /\ delivered' = [kind |-> msg.kind, stale |-> msg.mount # mount,
                     address |-> <<>>, chain |-> "none"]
    /\ UNCHANGED <<route, mount, profilePage, nNavigations>>
    /\ UNCHANGED <<chainVars, wizardVars, storageVars>>

\* getExchangeRate(chain)
getExchangeRate(chain) == CachedPrice(priceCache, getCoingeckoId(chain))

\* A callback that marks every row as loaded with the stats that arrived.
RowsWithStats_everyRow(prev, row, stats) ==
    [i \in 1..Len(prev) |->
        [prev[i] EXCEPT !.stats = stats,
                        !.usdBalance = stats.balance * getExchangeRate(row.chain),
                        !.loading = FALSE]]

\* const rate = getExchangeRate(row.chain); const usdBalance = stats.balance * rate;
\* setRows(prev => prev.map(r => r.id === row.id ?
\*     { ...r, stats, usdBalance, loading: false } : r))
RowsWithStats(prev, row, stats) ==
    [i \in 1..Len(prev) |->
        IF prev[i].id = row.id
        THEN [prev[i] EXCEPT !.stats = stats,
                             !.usdBalance = stats.balance * getExchangeRate(row.chain),
                             !.loading = FALSE]
        ELSE prev[i]]

\* A Dashboard that fills its rows one after the other: the stats of a row
\* are set only when no row above it is still loading.
fetchWalletStats_settled_inOrder(msg) ==
    /\ msg \in inflight /\ msg.kind = "fetchWalletStats"
    /\ \A i, j \in 1..Len(rows) :
          (i < j /\ msg.mount = mount /\ rows[j].id = msg.row.id) => ~rows[i].loading
    /\ inflight' = inflight \ {msg}
    /\ \E data \in StatsFor(msg.row.address, msg.row.chain) :
          IF msg.mount # mount
          THEN UNCHANGED <<profilePage, rows>>
          ELSE IF route.page = "/u/"
          THEN /\ profilePage' = [profilePage EXCEPT !.stats = data, !.loading = FALSE]
               /\ UNCHANGED rows
          ELSE /\ rows' = RowsWithStats(rows, msg.row, data)
               /\ UNCHANGED profilePage
    /\ delivered' = [kind |-> msg.kind, stale |-> msg.mount # mount,
                     address |-> msg.row.address, chain |-> msg.row.chain]
    /\ UNCHANGED <<route, mount, nNavigations>>
    /\ UNCHANGED <<chainVars, wizardVars, storageVars>>

\* .then(data => { setStats(data); setLoading(false) }) in ProfilePage;
\* .then(stats => { ... setRows(prev => prev.map(r => r.id === row.id ?
\* { ...r, stats, usdBalance, loading: false } : r)) }) in Dashboard
fetchWalletStats_settled(msg) ==
    /\ msg \in inflight /\ msg.kind = "fetchWalletStats"
    /\ inflight' = inflight \ {msg}
    /\ \E data \in StatsFor(msg.row.address, msg.row.chain) :
          IF msg.mount # mount
          THEN UNCHANGED <<profilePage, rows>>
          ELSE IF route.page = "/u/"
          THEN /\ profilePage' = [profilePage EXCEPT !.stats = data, !.loading = FALSE]
               /\ UNCHANGED rows
          ELSE /\ rows' = RowsWithStats(rows, msg.row, data)
               /\ UNCHANGED profilePage
    /\ delivered' = [kind |-> msg.kind, stale |-> msg.mount # mount,
                     address |-> msg.row.address, chain |-> msg.row.chain]
    /\ UNCHANGED <<route, mount, nNavigations>>
    /\ UNCHANGED <<chainVars, wizardVars, storageVars>>

NextPages ==
    \/ \E to \in VisitedPaths : Navigate(to)
    \/ \E msg \in inflight : loadProfile_settled(msg)
    \/ \E msg \in inflight : loadData_settled(msg)
    \/ \E msg \in inflight : fetchWalletStats_settled(msg)

\* The pages while the explorer of one chain (ETH) never answers: a
\* fetchWalletStats for an address of that chain stays pending for ever.
\* fetchWalletStats has no timeout, and every other fetch completes: a
\* promise that resolves has its .then callback run.
NextDashboard ==
    \/ \E to \in VisitedPaths : Navigate(to)
    \/ \E msg \in inflight : loadProfile_settled(msg)
    \/ \E msg \in inflight : loadData_settled(msg)
    \/ \E msg \in inflight : msg.row.chain # "ETH" /\ fetchWalletStats_settled(msg)

(***************************************************************************)
(* The specifications.                                                     *)
(***************************************************************************)
(***************************************************************************)
(* services/storage.ts against the table: clients create profiles and      *)
(* look them up.  A call is one step: the service keeps no state of its    *)
(* own between its await and what follows.                                 *)
(***************************************************************************)
\* createProfile(profile), Math.random() giving random and Date.now() now
createProfile_call(profile, random, now) ==
    \E reply \in InsertReplies(table, newProfile(profile, random, now)) :
        /\ table' = IF reply.failed THEN table ELSE Append(table, reply.data)
        /\ storageCall' = [call |-> "createProfile", username |-> profile.username,
                           reachable |-> TRUE, result |-> createProfile(reply)]
        /\ UNCHANGED <<chainVars, wizardVars, pageVars>>

\* getProfileByUsername(username)
getProfileByUsername_call(username, reachable) ==
    /\ storageCall' = [call |-> "getProfileByUsername", username |-> username,
                       reachable |-> reachable,
                       result |-> getProfileByUsername(table, username, reachable)]
    /\ UNCHANGED <<table, chainVars, wizardVars, pageVars>>

\* getAllProfiles()
getAllProfiles_call(reachable) ==
    /\ \E list \in getAllProfiles(table, reachable) :
          storageCall' = [call |-> "getAllProfiles", username |-> <<>>,
                          reachable |-> reachable, result |-> list]
    /\ UNCHANGED <<table, chainVars, wizardVars, pageVars>>

NextStorage ==
    \/ \E u \in {<<"a", "_", "b">>, <<"a", "x", "b">>, <<"A", "_", "B">>, Bob},
          random \in RandomValues, now \in {1, 2} :
            createProfile_call([username |-> u, address |-> EthAddress, chain |-> "ETH"],
                               random, now)
    \/ \E u \in {<<"a", "_", "b">>, <<"a", "x", "b">>, <<"A", "_", "B">>, Bob},
          reachable \in BOOLEAN :
            getProfileByUsername_call(u, reachable)
    \/ \E reachable \in BOOLEAN : getAllProfiles_call(reachable)

Init ==
    /\ InitChain /\ InitWizard /\ InitPages
    /\ table = <<>>
    /\ storageCall = [call |-> "none"]

SpecStorage == Init /\ [][NextStorage]_vars

SpecChain == Init /\ [][NextChain]_vars

SpecPrices == Init /\ [][NextPrices]_vars

SpecWizard == Init /\ [][NextWizard]_vars

SpecPages == Init /\ [][NextPages]_vars

SpecDashboard ==
    /\ Init /\ [][NextDashboard]_vars
    /\ WF_vars(\E msg \in inflight : msg.row.chain # "ETH" /\ fetchWalletStats_settled(msg))

(***************************************************************************)
(* Properties of services/chain.ts.                                        *)
(***************************************************************************)
Resolved == result.settled = "resolved"


\* C3, as stated: two fetchTokenPrices invocations that ask for the same id
\* and start less than 60 seconds apart do not both send a request that
\* contains the id.
C3_AtMostOneRequestWithinTTL ==
    \A c, d \in PriceCallers :
        \A id \in CoinIds :
            (/\ c # d
             /\ calls[c].pc # "idle" /\ calls[d].pc # "idle"
             /\ \E i \in 1..Len(calls[c].ids) : calls[c].ids[i] = id
             /\ \E i \in 1..Len(calls[d].ids) : calls[d].ids[i] = id
             /\ calls[c].now - calls[d].now < 60000
             /\ calls[d].now - calls[c].now < 60000)
            => ~(/\ \E i \in 1..Len(calls[c].missingIds) : calls[c].missingIds[i] = id
                 /\ \E i \in 1..Len(calls[d].missingIds) : calls[d].missingIds[i] = id)

\* C3, amended: an invocation of fetchTokenPrices sends no request for an id
\* exactly when, at its start, the last response stored for the id belongs to
\* an invocation that started at most 60 seconds before it; a response that
\* has not arrived, or that failed, spares the next invocation nothing.
C3_RequestIffNoFreshStoredResponse ==
    \A c \in PriceCallers :
        calls[c].pc # "idle" =>
            \A i \in 1..Len(calls[c].ids) :
                LET id == calls[c].ids[i]
                IN  (\E j \in 1..Len(calls[c].missingIds) : calls[c].missingIds[j] = id)
                        <=> (\/ calls[c].seen[id] = Never
                             \/ calls[c].now - calls[c].seen[id] > 60000)

\* C3, the case: an invocation answered from the cache alone, exactly 60
\* seconds after the invocation that stored the entry started.
C3_Witness ==
    \E c \in PriceCallers :
        /\ calls[c].pc = "done"
        /\ calls[c].ids # <<>>
        /\ calls[c].missingIds = <<>>
        /\ calls[c].now - calls[c].seen[calls[c].ids[1]] = 60000

\* C4: fetchWalletStats never rejects: whatever the chain, the address and
\* the upstream outcomes, the promise resolves with a stats object.
C4_NeverRejects == result.settled # "rejected"

\* C4, the case: an invocation in which the code threw inside the try block
\* (the date of a transaction that is in no block yet) has resolved.
C4_Witness ==
    /\ Resolved
    /\ result.chain = "BTC"
    /\ result.stats.latestTransaction.present
    /\ ~result.stats.latestTransaction.confirmed

\* C5, as stated: when a call of the fetcher failed or the address is not
\* valid, the stats returned are the default ones.
C5_ZeroedOnAnyFailure ==
    (Resolved /\ (result.failedCalls # {} \/ ~isValidAddress(result.address, result.chain)))
        => /\ result.stats.balance = 0
           /\ result.stats.txCount = 0
           /\ result.stats.tokens = <<>>
           /\ ~result.stats.latestTransaction.present

\* C5, amended: the stats returned are the default ones when the address is
\* not valid or no explorer or RPC call of the invocation succeeded; and a
\* field differs from its default only if the call that supplies it
\* succeeded (values of earlier successful calls are kept when a later call
\* fails).
C5_DefaultUnlessSupplyingCallSucceeded ==
    Resolved =>
        /\ (\/ ~isValidAddress(result.address, result.chain)
            \/ result.okCalls \cap {"balance", "txlist", "firsttx", "tokens"} = {})
                => result.stats = DefaultStats
        /\ result.stats.balance # 0 => "balance" \in result.okCalls
        /\ result.stats.txCount # 0 =>
                IF result.chain = "BTC" THEN "balance" \in result.okCalls
                ELSE "txlist" \in result.okCalls
        /\ result.stats.latestTransaction.present => "txlist" \in result.okCalls
        /\ result.stats.tokens # <<>> => "tokens" \in result.okCalls
        /\ result.stats.firstTxDate # "today" =>
                IF result.chain = "BTC" THEN "txlist" \in result.okCalls
                ELSE "firsttx" \in result.okCalls

\* C5, the case: the transaction-list call failed and the balance that the
\* earlier call supplied is returned.
C5_Witness ==
    /\ Resolved
    /\ "txlist" \in result.failedCalls
    /\ result.stats.balance # 0

\* C6: every result of fetchWalletStats has a history of exactly 365 entries
\* and isSimulatedHistory true.
C6_HistoryOf365Simulated ==
    Resolved => (Len(result.history) = 365 /\ result.isSimulatedHistory = TRUE)

\* C6, the case: the result for an address that is not valid.
C6_Witness ==
    /\ Resolved
    /\ ~isValidAddress(result.address, result.chain)
    /\ Len(result.history) = 365

\* C7, as stated: the last history entry is the balance times the price of
\* the native coin, and is not zero when the balance is not zero and no
\* request to the price feed failed.
C7_LastEntryIsRealValue ==
    Resolved =>
        /\ Len(result.history) > 0
        /\ result.history[Len(result.history)].value = result.stats.balance * result.price
        /\ (result.stats.balance # 0 /\ "price" \notin result.failedCalls)
                => result.history[Len(result.history)].value # 0

\* C8, as stated: the dates of the history go up by exactly one day from
\* entry to entry and the last entry has the date of the day of the call.
C8_ConsecutiveDates ==
    Resolved =>
        /\ \A j \in 1..(Len(result.history) - 1) :
                result.history[j + 1].date = result.history[j].date + 1
        /\ result.history[Len(result.history)].date = result.synthAt \div DAY_MS

\* C9, as stated: a fetcher that was given a valid address and whose balance
\* call succeeded has called fetchTokenPrices before it returns.
C9_PriceResolvedAfterBalance ==
    (/\ Resolved
     /\ isValidAddress(result.address, result.chain)
     /\ "balance" \in result.okCalls)
        => result.ftp # "none"

(***************************************************************************)
(* Properties of the pages and of the wizard.                              *)
(***************************************************************************)
\* C1: the stats a ProfilePage shows were fetched for the address and chain
\* of the profile it shows, and the stats of a Dashboard row for the address
\* and chain of that row: a response that arrives for a page the user has
\* left changes nothing.
C1_StatsBelongToWhatIsShown ==
    /\ profilePage.stats # NoStats =>
            /\ profilePage.profile # NoProfile
            /\ profilePage.stats.address = profilePage.profile.address
            /\ profilePage.stats.chain = profilePage.profile.chain
    /\ \A i \in 1..Len(rows) :
            rows[i].stats # NoStats =>
                /\ rows[i].stats.address = rows[i].address
                /\ rows[i].stats.chain = rows[i].chain

\* C1, the case: the stats fetched for one profile arrive while the page
\* shows another profile, which has its own stats.
C1_Witness ==
    /\ delivered.kind = "fetchWalletStats"
    /\ delivered.stale
    /\ route.page = "/u/"
    /\ profilePage.profile # NoProfile
    /\ profilePage.stats # NoStats
    /\ delivered.address # profilePage.profile.address

\* C2, as stated: every payload the wizard has given to createProfile has an
\* address that isValidAddress accepts for its chain.
C2_CreatedAddressesValid ==
    \A payload \in createCalls : isValidAddress(payload.address, payload.chain)

\* C10: 'Continue Manually' with an address that is not valid for the chain
\* chosen leaves the step 'connect', leaves the address, the chain and the
\* connected wallet as they are and sets an error that names the chain.
C10_InvalidManualEntryBlocked ==
    [][(/\ event' = "handleManualNext"
        /\ ~isValidAddress(formData.address, formData.chain))
            => /\ step = "connect" /\ step' = "connect"
               /\ formData'.address = formData.address
               /\ formData'.chain = formData.chain
               /\ connectedWallet' = connectedWallet
               /\ \E i \in 1..Len(error') : error'[i] = formData.chain]_vars

\* C10, the case: 'Continue Manually' was pressed with "not-an-address" for
\* BTC.
C10_Witness ==
    /\ event = "handleManualNext"
    /\ mode = "manual"
    /\ formData.address = NotAnAddress
    /\ formData.chain = "BTC"
    /\ step = "connect"
    /\ error # NoError

\* C11: pressing 'Continue Manually' with an address that is valid for the
\* selected chain takes the wizard from 'connect' straight to 'profile': the
\* step after the press is 'profile' and not 'verify', the press starts no
\* wallet call (no signing function is called), and connectedWallet is null
\* on arrival.
C11_ManualSkipsVerify ==
    [][(/\ event' = "handleManualNext"
        /\ isValidAddress(formData.address, formData.chain))
            => /\ step = "connect" /\ step' = "profile"
               /\ connectedWallet' = NoWallet
               /\ pending' = pending
               /\ error' = NoError]_vars

\* A manual entry arrived at 'profile' with a valid Bitcoin address, for
\* which no wallet could have been connected.
C11_Witness ==
    /\ event = "handleManualNext" /\ step = "profile" /\ mode = "manual"
    /\ formData.chain = "BTC" /\ formData.address = BtcAddress
    /\ connectedWallet = NoWallet
    /\ \A p \in pending : p.call # "sign"

\* C12 as stated: whenever the wallet signs and the address recovered from
\* the signature differs, ignoring case, from the expected address, signEVM
\* resolves to false and does not throw, whatever account the signer reports.
C12_FalseWheneverRecoveredDiffers ==
    (/\ settled.call = "signEVM"
     /\ settled.wallet.installed
     /\ settled.wallet.reply = "signature"
     /\ toLowerCase(settled.wallet.signedBy) # toLowerCase(settled.address))
        => settled.outcome = Signed(FALSE)

\* C12, amended: signEVM resolves to false exactly when the signer reports
\* the expected address (ignoring case), signs, and the address recovered
\* from the signature differs (ignoring case) from the expected one; when the
\* signer reports another address it signs nothing and signEVM throws
\* "Signature rejected or failed."
C12_FalseOnlyWhenSignerReportsExpected ==
    settled.call = "signEVM" =>
        LET w == settled.wallet
            sameAccount == toLowerCase(w.account) = toLowerCase(settled.address)
        IN  /\ settled.outcome = Signed(FALSE)
                <=> /\ w.installed /\ sameAccount /\ w.reply = "signature"
                    /\ toLowerCase(w.signedBy) # toLowerCase(settled.address)
            /\ (w.installed /\ ~sameAccount)
                => settled.outcome = Rejected("Signature rejected or failed.")

\* The signer reports the expected account in another spelling and the
\* signature recovers another address: signEVM resolved to false.
C12_Witness ==
    /\ settled.call = "signEVM"
    /\ settled.address = EthAddress
    /\ settled.wallet.account = EthAddressUpper
    /\ settled.wallet.signedBy = OtherEthAddress
    /\ settled.outcome = Signed(FALSE)
    /\ error = <<"Signature verification failed.">>

\* C13: what signSolana comes to depends only on whether the provider
\* returned a signature: it is the same for every address and every message,
\* it is true exactly when a signature came back, and the wizard is then at
\* 'profile', whether or not the signature was made with the key of the
\* connected address.
C13_SolanaSignatureNotVerified ==
    settled.call = "signSolana" =>
        LET w == settled.wallet
        IN  /\ \A a \in {SolAddress, OtherSolAddress, EthAddress},
                  b \in {SolAddress, OtherSolAddress},
                  t \in {"2025-01-01T00:00:00.000Z"}, n \in Nonces :
                    signSolana(a, createVerificationMessage(b, t, n), w) = settled.outcome
            /\ settled.outcome = Signed(TRUE) <=> (w.installed /\ w.reply = "signature")
            /\ settled.outcome = Signed(TRUE) => step = "profile"

\* A signature made with the key of another account took the wizard to
\* 'profile' with the Solana wallet connected.
C13_Witness ==
    /\ settled.call = "signSolana"
    /\ settled.address = SolAddress
    /\ settled.wallet.reply = "signature"
    /\ settled.wallet.signedBy = OtherSolAddress
    /\ step = "profile"
    /\ connectedWallet.address = SolAddress

(***************************************************************************)
(* Properties of services/storage.ts.                                      *)
(***************************************************************************)
\* C14 as stated: when the store answers, getProfileByUsername(name) returns
\* the stored profile whose username equals name ignoring case when there is
\* one, and undefined when there is none; so a profile that was created is
\* found under its own username whatever else is stored.
C14_CaseInsensitiveExactLookup ==
    (storageCall.call = "getProfileByUsername" /\ storageCall.reachable) =>
        LET equal == {i \in 1..Len(table) :
                        toLowerCase(table[i].username) = toLowerCase(storageCall.username)}
        IN  IF equal = {} THEN storageCall.result = NoProfile
            ELSE storageCall.result \in {ToProfile(table[i]) : i \in equal}

\* C16 as stated: the record a successful createProfile returns has an id
\* that is not empty and differs from the id of every record returned by an
\* earlier successful createProfile (these are the rows stored before it).
C16_IdsNonEmptyAndDifferent ==
    (storageCall.call = "createProfile" /\ storageCall.result.ok) =>
        /\ storageCall.result.profile.id # <<>>
        /\ \A i \in 1..(Len(table) - 1) : table[i].id # storageCall.result.profile.id

\* C17: getAllProfiles resolves with a list: the empty list when the store
\* answers with an error or the client throws, otherwise exactly one
\* profile per stored row, a profile never before one created later.
C17_AllProfilesNewestFirstOrEmpty ==
    storageCall.call = "getAllProfiles" =>
        LET list == storageCall.result
        IN  IF ~storageCall.reachable THEN list = <<>>
            ELSE /\ Len(list) = Len(table)
                 /\ \A i \in 1..Len(table) :
                        \E j \in 1..Len(list) : list[j] = ToProfile(table[i])
                 /\ \A i, j \in 1..Len(list) :
                        i < j => list[i].createdAt >= list[j].createdAt

\* Three rows, the first inserted being the oldest, read newest first.
C17_Witness ==
    /\ storageCall.call = "getAllProfiles" /\ storageCall.reachable
    /\ Len(table) = 3
    /\ table[1].created_at < table[2].created_at
    /\ Len(storageCall.result) = 3
    /\ storageCall.result[3] = ToProfile(table[1])

(***************************************************************************)
(* Properties of the submission of the profile form.                       *)
(***************************************************************************)
\* C15 as stated: whenever the insert fails, createProfile throws an error
\* that carries the storage error's message, and the wizard shows that text.
C15_ShowsStorageMessage ==
    (settled.call = "createProfile" /\ settled.reply.failed) =>
        /\ settled.outcome = Rejected(settled.reply.message)
        /\ error = <<settled.reply.message>>

\* C15, amended: whenever the insert fails, createProfile throws an error
\* whose message is the storage error's message, or 'Failed to create
\* profile' when that message is empty; the wizard shows this text, stays at
\* 'profile' with isLoading false, leaves the form data as they are and does
\* not navigate.
C15_InsertFailureShownInPlace ==
    [][(settled'.call = "createProfile" /\ settled'.reply.failed) =>
        LET text == IF settled'.reply.message = "" THEN "Failed to create profile"
                    ELSE settled'.reply.message
        IN  /\ settled'.outcome = Rejected(text)
            /\ error' = <<text>>
            /\ step = "profile" /\ step' = "profile"
            /\ isLoading' = FALSE
            /\ formData' = formData
            /\ location = SubmitPage /\ location' = SubmitPage]_vars

\* The store refused the row with a message and the wizard shows it at the
\* 'profile' step.
C15_Witness ==
    /\ settled.call = "createProfile" /\ settled.reply.failed
    /\ settled.reply.message = "duplicate key value violates unique constraint"
    /\ error = <<"duplicate key value violates unique constraint">>
    /\ step = "profile" /\ ~isLoading /\ location = SubmitPage
    /\ formData.username = settled.payload.username

\* C18: a run of the submit handler gives the form data to createProfile
\* exactly when the username is 3 to 20 characters, each a letter, a digit or
\* an underscore; otherwise it makes no storage call, shows the username
\* error, and leaves the step at 'profile' with isLoading false.
C18_OnlyValidUsernamesReachStorage ==
    [][event' = "handleSubmit" =>
        LET username == formData.username
            allowed == /\ Len(username) >= 3 /\ Len(username) <= 20
                       /\ \A i \in 1..Len(username) :
                            username[i] \in LowerCase \cup UpperCase \cup Digits \cup {"_"}
        IN  IF allowed
            THEN /\ createCalls' = createCalls \cup {formData}
                 /\ \E p \in pending' \ pending : p.call = "create" /\ p.payload = formData
            ELSE /\ createCalls' = createCalls
                 /\ pending' = pending
                 /\ error' = <<"Username must be 3-20 alphanumeric characters.">>
                 /\ step' = "profile"
                 /\ isLoading' = FALSE]_vars

\* The form was submitted with a username of 21 letters: the error is shown
\* and nothing was given to createProfile.
C18_Witness ==
    /\ event = "handleSubmit"
    /\ Len(formData.username) = 21
    /\ error = <<"Username must be 3-20 alphanumeric characters.">>
    /\ step = "profile" /\ ~isLoading
    /\ createCalls = {} /\ pending = {}

(***************************************************************************)
(* Properties of the price cache.                                          *)
(***************************************************************************)
\* C19: when the upstream request of a fetchTokenPrices invocation fails, by
\* an exception or a non-OK status, the invocation still resolves, the price
\* cache is left as it was, and the result has, for every requested id, the
\* price the cache holds for it, or 0 when it holds none.
C19_FailureLeavesCacheAndReturnsCached ==
    [][\A c \in PriceCallers :
        (/\ calls[c].pc = "waiting" /\ calls'[c].pc = "done"
         /\ calls'[c].response \in {"throw", "nonok"})
            => /\ priceCache' = priceCache
               /\ DOMAIN calls'[c].result = {calls[c].ids[i] : i \in 1..Len(calls[c].ids)}
               /\ \A id \in DOMAIN calls'[c].result :
                    calls'[c].result[id] =
                        IF priceCache[id].cached THEN priceCache[id].price ELSE 0]_vars

\* An invocation whose request failed has returned the price of an entry
\* that was in the cache and 0 for an id the cache has no entry for.
C19_Witness ==
    \E c \in PriceCallers :
        /\ calls[c].pc = "done"
        /\ calls[c].response \in {"throw", "nonok"}
        /\ \E id \in DOMAIN calls[c].result : calls[c].result[id] > 0
        /\ \E id \in DOMAIN calls[c].result : calls[c].result[id] = 0

\* C20 as stated, its last part: every price an invocation stores carries
\* the current time, the time at which it is stored, as its timestamp.
C20_StoredWithCurrentTime ==
    [][\A c \in PriceCallers :
        (calls[c].pc = "waiting" /\ calls'[c].pc = "done")
            => \A id \in CoinIds :
                    priceCache'[id] # priceCache[id] => priceCache'[id].timestamp = clock']_vars

\* C20, amended: an invocation sends one request when some requested id has
\* no cache entry or an entry whose timestamp lies more than 60 seconds
\* before the start of the invocation, the request naming exactly these ids,
\* and none otherwise; the other ids are answered from the cache; and every
\* price the invocation stores carries the time at which the invocation
\* started, whenever its response arrives.
C20_OneRequestForStaleIdsStampedAtStart ==
    [][\A c \in PriceCallers :
        /\ (calls[c].pc # "waiting" /\ calls'[c] # calls[c])
            => LET ids == calls'[c].ids
                   stale(id) == \/ ~priceCache[id].cached
                                \/ clock - priceCache[id].timestamp > 60000
               IN  /\ calls'[c].missingIds = SelectSeq(ids, stale)
                   /\ calls'[c].pc = IF \E i \in 1..Len(ids) : stale(ids[i])
                                     THEN "waiting" ELSE "done"
                   /\ calls'[c].now = clock
                   /\ priceCache' = priceCache
                   /\ calls'[c].pc = "done"
                        => \A i \in 1..Len(ids) :
                              calls'[c].result[ids[i]] = priceCache[ids[i]].price
        /\ (calls[c].pc = "waiting" /\ calls'[c].pc = "done")
            => /\ \A id \in CoinIds :
                    priceCache'[id] # priceCache[id]
                        => /\ \E i \in 1..Len(calls[c].missingIds) : calls[c].missingIds[i] = id
                           /\ priceCache'[id].timestamp = calls[c].now
               /\ \A i \in 1..Len(calls[c].ids) :
                    calls'[c].result[calls[c].ids[i]] =
                        IF priceCache'[calls[c].ids[i]].cached
                        THEN priceCache'[calls[c].ids[i]].price ELSE 0]_vars

\* An invocation for two ids requested the one that was not in the cache,
\* and stored its price, stamped with its start, after time had passed.
C20_Witness ==
    \E c \in PriceCallers :
        /\ calls[c].pc = "done"
        /\ Len(calls[c].ids) = 2 /\ Len(calls[c].missingIds) = 1
        /\ calls[c].response = "ok"
        /\ priceCache[calls[c].missingIds[1]].cached
        /\ priceCache[calls[c].missingIds[1]].timestamp = calls[c].now
        /\ clock > calls[c].now

C22_NothingFollowsFailureAtEndpoint ==
    \A iv \in {inv, result} :
        \A i, j \in 1..Len(iv.issued) :
            i < j => /\ iv.issued[i] # iv.issued[j]
                     /\ iv.issued[i] \in iv.failedCalls
                            => EndpointOf(iv.chain, iv.issued[j])
                                    # EndpointOf(iv.chain, iv.issued[i])

\* C22, amended: within one invocation no request is repeated; each of the
\* balance, transaction list, first transaction, token accounts and price
\* requests is issued at most once, whether it succeeds or fails, and a
\* fetcher issues at most four requests, the price request among them at
\* most once.
C22_NoRequestRepeated ==
    \A iv \in {inv, result} :
        /\ \A i, j \in 1..Len(iv.issued) : i < j => iv.issued[i] # iv.issued[j]
        /\ Len(iv.issued) <= 4
        /\ iv.okCalls \cap iv.failedCalls = {}
        /\ iv.okCalls \cup iv.failedCalls \subseteq {iv.issued[i] : i \in 1..Len(iv.issued)}

\* The Solana fetcher went on to its three other requests after its balance
\* request was answered with a status that is not OK.
C22_Witness ==
    /\ Resolved /\ result.chain = "SOL"
    /\ result.issued = <<"balance", "price", "txlist", "tokens">>
    /\ "balance" \in result.failedCalls
    /\ "tokens" \in result.okCalls

\* C23 as stated: the fetchers go on to their requests for exactly the
\* addresses in the chain's format: for BTC a '1' or '3' followed by base58
\* characters or 'bc1' followed by bech32 characters, for SOL 32 to 44 base58
\* characters, for ETH and BNB '0x' and 40 hex digits; never for the empty
\* address.
C23_AcceptsExactlyChainFormat ==
    result.settled # "none" =>
        LET a == result.address
            base58 == (LowerCase \cup UpperCase \cup Digits) \ {"0", "O", "I", "l"}
            bech32 == (LowerCase \cup Digits) \ {"1", "b", "i", "o"}
            rest(n, class) == \A i \in (n + 1)..Len(a) : a[i] \in class
            inFormat ==
                CASE result.chain = "BTC" ->
                        \/ /\ Len(a) \in 26..60 /\ a[1] \in {"1", "3"} /\ rest(1, base58)
                        \/ /\ Len(a) \in 28..62 /\ SubSeq(a, 1, 3) = <<"b", "c", "1">>
                           /\ rest(3, bech32)
                  [] result.chain = "SOL" -> Len(a) \in 32..44 /\ rest(0, base58)
                  [] OTHER -> /\ Len(a) = 42 /\ SubSeq(a, 1, 2) = <<"0", "x">>
                              /\ rest(2, Digits \cup {"a", "b", "c", "d", "e", "f",
                                                      "A", "B", "C", "D", "E", "F"})
        IN  /\ isValidAddress(a, result.chain) <=> inFormat
            /\ result.issued # <<>> <=> inFormat

\* C24 as stated: over any interleaving of overlapping fetchTokenPrices
\* invocations an id's cached timestamp never decreases, and a response
\* never replaces the price stored for a request that was issued later.
C24_TimestampNeverDecreases ==
    [][\A id \in CoinIds :
          priceCache[id].cached
            => /\ priceCache'[id].cached
               /\ priceCache'[id].timestamp >= priceCache[id].timestamp
               /\ \A c \in PriceCallers :
                     (calls[c].pc = "waiting" /\ calls'[c].pc = "done"
                        /\ priceCache'[id] # priceCache[id])
                       => calls[c].now >= lastStored[id]]_vars

\* C25: a Dashboard row whose upstream never answers keeps loading = true
\* and no stats, and delays no other row: every other row that is loading
\* comes to loading = false with its stats set, unless the Dashboard is left
\* before (its rows are then gone).
C25_HungRowDelaysNoOther ==
    /\ [](\A i \in 1..Len(rows) :
            rows[i].chain = "ETH" => rows[i].loading /\ rows[i].stats = NoStats)
    /\ \A id \in {StoredProfiles[k].id : k \in 1..Len(StoredProfiles)} :
          (\E i \in 1..Len(rows) :
                rows[i].id = id /\ rows[i].chain # "ETH" /\ rows[i].loading)
            ~> \/ rows = <<>>
               \/ \E i \in 1..Len(rows) :
                     rows[i].id = id /\ ~rows[i].loading /\ rows[i].stats # NoStats

\* The row under the one that never answers has its stats.
C25_Witness ==
    /\ Len(rows) = 2
    /\ rows[1].chain = "ETH" /\ rows[1].loading
    /\ rows[2].chain = "BTC" /\ ~rows[2].loading /\ rows[2].stats # NoStats
    /\ \E msg \in inflight : msg.mount = mount /\ msg.row.id = rows[1].id

\* C26 as stated: whenever the step is 'profile' and a wallet is connected,
\* the form's address and chain are the wallet's, and the wizard came to
\* that state by a signature check for that wallet's address that returned
\* true.
C26_VerifiedFormIsTheWallets ==
    [][(step' = "profile" /\ connectedWallet' # NoWallet)
          => /\ formData'.address = connectedWallet'.address
             /\ formData'.chain = connectedWallet'.chain
             /\ \/ step = "profile" /\ connectedWallet = connectedWallet'
                \/ /\ settled'.call \in {"signEVM", "signSolana"}
                   /\ settled'.address = connectedWallet'.address
                   /\ settled'.outcome.ok /\ settled'.outcome.isValid]_vars

\* C27 as stated: once the step is 'profile' it stays 'profile', and the
\* address and the chain of the form do not change any more.
C27_ProfileStepIsFinal ==
    [][step = "profile"
          => /\ step' = "profile"
             /\ formData'.address = formData.address
             /\ formData'.chain = formData.chain]_vars

\* C28 as stated: in wallet mode the step goes from 'verify' to 'profile'
\* exactly when the sign function of the wallet's chain resolved to true for
\* connectedWallet.address; when it resolved to false the step stays
\* 'verify' and the error is 'Signature verification failed.'; and the step
\* becomes 'verify' only with a wallet connected.
C28_VerifyToProfileIffSignedTrue ==
    [][LET signed == /\ settled'.call = (IF connectedWallet.chain = "SOL" THEN "signSolana"
                                                                       ELSE "signEVM")
                     /\ settled'.address = connectedWallet.address
                     /\ settled'.outcome.ok
       IN  /\ (mode = "wallet" /\ step = "verify" /\ step' = "profile")
                 => (signed /\ settled'.outcome.isValid)
           /\ (mode = "wallet" /\ signed /\ settled'.outcome.isValid)
                 => (step = "verify" /\ step' = "profile")
           /\ (mode = "wallet" /\ signed /\ ~settled'.outcome.isValid)
                 => /\ step' = "verify"
                    /\ error' = <<"Signature verification failed.">>
           /\ (step # "verify" /\ step' = "verify") => connectedWallet' # NoWallet]_vars

\* C29: when the stats fetch of a Dashboard row resolves, the rows are the
\* same in number and order, every row with another id is as it was, and the
\* row of that id differs at most in stats, usdBalance and loading, which is
\* false; and while the Dashboard stays mounted a row whose loading is false
\* stays in its place with loading false.
C29_OnlyThatRowChanges ==
    [][/\ \A msg \in inflight \ inflight' :
            (msg.kind = "fetchWalletStats" /\ msg.mount = mount /\ route = DashboardPath)
              => /\ Len(rows') = Len(rows)
                 /\ \A i \in 1..Len(rows) :
                       IF rows[i].id # msg.row.id THEN rows'[i] = rows[i]
                       ELSE /\ rows'[i] = [rows[i] EXCEPT !.stats = rows'[i].stats,
                                                        !.usdBalance = rows'[i].usdBalance,
                                                        !.loading = FALSE]
                            /\ rows'[i].stats \in StatsFor(msg.row.address, msg.row.chain)
       /\ \A i \in 1..Len(rows) :
            (~rows[i].loading /\ mount' = mount)
              => /\ Len(rows') >= i
                 /\ rows'[i].id = rows[i].id
                 /\ ~rows'[i].loading]_vars

\* C29, the case: the stats of the second row have arrived and the first row
\* is as loadData made it.
C29_Witness ==
    /\ delivered.kind = "fetchWalletStats" /\ ~delivered.stale
    /\ Len(rows) = 2
    /\ rows[1].loading /\ rows[1].stats = NoStats /\ rows[1].usdBalance = 0
    /\ delivered.address = rows[2].address
    /\ ~rows[2].loading /\ rows[2].stats # NoStats

\* C30: the token list of a result has at most 10 entries, each with a
\* balance of at least 0.01; its entries are, in the order of the upstream
\* answer, the first accounts of that answer that pass the threshold (all of
\* them when fewer than 10 pass); and the list of a BTC result is empty.
C30_TokensFilteredCutInOrder ==
    Resolved =>
        LET tokens == result.stats.tokens
        IN  /\ Len(tokens) <= 10
            /\ \A k \in 1..Len(tokens) : tokens[k].balance >= 10
            /\ result.chain = "BTC" => tokens = <<>>
            /\ (result.chain = "SOL" /\ "tokens" \in result.okCalls) =>
                  \E value \in TokenLists :
                      LET passing == {i \in 1..Len(value) : value[i] >= 10}
                      IN  /\ \A k \in 1..Len(tokens) :
                                /\ tokens[k].mint \in passing
                                /\ tokens[k].balance = value[tokens[k].mint]
                                /\ \A j \in 1..(k - 1) : tokens[j].mint < tokens[k].mint
                                /\ \A i \in passing :
                                      i < tokens[k].mint
                                        => \E j \in 1..(k - 1) : tokens[j].mint = i
                          /\ Len(tokens) < 10 => Len(tokens) = Cardinality(passing)

\* C30, the case: thirteen accounts, twelve of them above the threshold, of
\* which the first ten are returned.
C30_Witness ==
    /\ Resolved
    /\ result.chain = "SOL"
    /\ Len(result.stats.tokens) = 10
    /\ result.stats.tokens[2].mint = 3
    /\ result.stats.tokens[10].mint = 11

====
